---- MODULE Spec2Model ----
(***************************************************************************)
(* kv-caddy: a Caddy/certmagic storage backend over the kv-database HTTP   *)
(* API (src/storage.go).  Byte strings, value texts and keys are sequences *)
(* of byte values (Go strings are byte sequences, so string(b) and         *)
(* []byte(s) are the identity on them).  The remote service is a map from  *)
(* keys to the value text it was last sent.  Time is counted in minutes.   *)
(***************************************************************************)
EXTENDS Integers, Sequences, FiniteSets, TLC

(* ------------------------------ bounds -------------------------------- *)

\* longest byte string handed to Store
MaxValLen == 3
\* number of clock ticks (minutes) the lock model lets pass
MaxTick == 1
\* largest number of keys the remote namespace lists
MaxKeys == 4

(* --------------------------- program constants ------------------------ *)

\* 5*time.Minute, in minutes
StaleMinutes == 5
StatusOK == 200
StatusNotFound == 404
\* any status of the remote service other than 200 and 404
StatusOther == 500

(* ------------------------------ strings ------------------------------- *)

Slash == 47
Pad == 61
\* ".lock"
LockSuffix == <<46, 108, 111, 99, 107>>

\* strings.HasPrefix
HasPrefix(s, p) == Len(s) >= Len(p) /\ SubSeq(s, 1, Len(p)) = p

\* strings.TrimPrefix
TrimPrefix(s, p) == IF HasPrefix(s, p) THEN SubSeq(s, Len(p) + 1, Len(s)) ELSE s

\* strings.Contains for a one-byte substring
Contains(s, c) == \E i \in 1..Len(s) : s[i] = c

RECURSIVE Digits(_)
Digits(n) == IF n < 10 THEN <<48 + n>> ELSE Digits(n \div 10) \o <<48 + (n % 10)>>

\* fmt.Sprintf("%d", n)
Sprintf(n) == IF n < 0 THEN <<45>> \o Digits(0 - n) ELSE Digits(n)

IsDigit(c) == c >= 48 /\ c <= 57

RECURSIVE SkipSpace(_)
SkipSpace(s) ==
  IF Len(s) > 0 /\ s[1] \in {32, 9, 13} THEN SkipSpace(Tail(s)) ELSE s

\* the longest prefix of s made of decimal digits and underscores
RECURSIVE scanNumber(_)
scanNumber(s) ==
  IF Len(s) > 0 /\ (IsDigit(s[1]) \/ s[1] = 95)
  THEN <<s[1]>> \o scanNumber(Tail(s))
  ELSE <<>>

RECURSIVE ParseDigits(_, _)
ParseDigits(tok, acc) ==
  IF Len(tok) = 0 THEN acc ELSE ParseDigits(Tail(tok), acc * 10 + (tok[1] - 48))

\* fmt.Sscanf(s, "%d", &n): blanks are skipped, a sign is accepted, the digits
\* that follow are the number, and whatever follows them is left unread.
Sscanf(s) ==
  LET t == SkipSpace(s)
      neg == Len(t) > 0 /\ t[1] = 45
      u == IF Len(t) > 0 /\ t[1] \in {43, 45} THEN Tail(t) ELSE t
      tok == scanNumber(u)
  IN IF Len(tok) = 0 \/ Contains(tok, 95)
     THEN [ok |-> FALSE, n |-> 0]
     ELSE [ok |-> TRUE, n |-> IF neg THEN 0 - ParseDigits(tok, 0) ELSE ParseDigits(tok, 0)]

(* ------------------------------ base64 -------------------------------- *)

\* the standard alphabet: index 0..63 to its character
B64Char(i) ==
  IF i < 26 THEN 65 + i
  ELSE IF i < 52 THEN 97 + (i - 26)
  ELSE IF i < 62 THEN 48 + (i - 52)
  ELSE IF i = 62 THEN 43 ELSE 47

\* the decode map: a character to its index, -1 when not in the alphabet
B64Index(c) ==
  IF c >= 65 /\ c <= 90 THEN c - 65
  ELSE IF c >= 97 /\ c <= 122 THEN c - 97 + 26
  ELSE IF c >= 48 /\ c <= 57 THEN c - 48 + 52
  ELSE IF c = 43 THEN 62
  ELSE IF c = 47 THEN 63 ELSE 0 - 1

\* base64.StdEncoding.EncodeToString
RECURSIVE EncodeToString(_)
EncodeToString(b) ==
  IF Len(b) = 0 THEN <<>>
  ELSE IF Len(b) = 1 THEN
    LET n == b[1] * 65536
    IN <<B64Char(n \div 262144), B64Char((n \div 4096) % 64), Pad, Pad>>
  ELSE IF Len(b) = 2 THEN
    LET n == b[1] * 65536 + b[2] * 256
    IN <<B64Char(n \div 262144), B64Char((n \div 4096) % 64), B64Char((n \div 64) % 64), Pad>>
  ELSE
    LET n == b[1] * 65536 + b[2] * 256 + b[3]
    IN <<B64Char(n \div 262144), B64Char((n \div 4096) % 64),
         B64Char((n \div 64) % 64), B64Char(n % 64)>>
       \o EncodeToString(SubSeq(b, 4, Len(b)))

\* the decoder skips '\r' and '\n' wherever they stand
RECURSIVE StripNewlines(_)
StripNewlines(s) ==
  IF Len(s) = 0 THEN <<>>
  ELSE IF s[1] \in {10, 13} THEN StripNewlines(Tail(s))
  ELSE <<s[1]>> \o StripNewlines(Tail(s))

\* one quantum of four characters at a time; padding ends the input
RECURSIVE decodeQuanta(_)
decodeQuanta(s) ==
  IF Len(s) = 0 THEN [err |-> FALSE, out |-> <<>>]
  ELSE IF Len(s) < 4 THEN [err |-> TRUE, out |-> <<>>]
  ELSE IF B64Index(s[1]) < 0 \/ B64Index(s[2]) < 0 THEN [err |-> TRUE, out |-> <<>>]
  ELSE IF s[3] = Pad THEN
    IF s[4] = Pad /\ Len(s) = 4
    THEN [err |-> FALSE,
          out |-> <<(B64Index(s[1]) * 64 + B64Index(s[2])) \div 16>>]
    ELSE [err |-> TRUE, out |-> <<>>]
  ELSE IF B64Index(s[3]) < 0 THEN [err |-> TRUE, out |-> <<>>]
  ELSE IF s[4] = Pad THEN
    IF Len(s) = 4
    THEN LET n == B64Index(s[1]) * 4096 + B64Index(s[2]) * 64 + B64Index(s[3])
         IN [err |-> FALSE, out |-> <<n \div 1024, (n \div 4) % 256>>]
    ELSE [err |-> TRUE, out |-> <<>>]
  ELSE IF B64Index(s[4]) < 0 THEN [err |-> TRUE, out |-> <<>>]
  ELSE
    LET n == B64Index(s[1]) * 262144 + B64Index(s[2]) * 4096
             + B64Index(s[3]) * 64 + B64Index(s[4])
        rest == decodeQuanta(SubSeq(s, 5, Len(s)))
    IN [err |-> rest.err,
        out |-> <<n \div 65536, (n \div 256) % 256, n % 256>> \o rest.out]

\* base64.StdEncoding.DecodeString
DecodeString(s) == decodeQuanta(StripNewlines(s))

(* ------------------------- the remote service ------------------------- *)

\* What can happen to one HTTP exchange: "none" (the service answers from what
\* it holds), "status" (it refuses with a status other than 200 and 404),
\* "transport" (the request never arrives), "lost" (the request is served, and
\* the answer does not arrive or cannot be read), "garbled" (a 200 answer whose
\* body is not the JSON envelope).
ReadFaults == {"none", "status", "transport", "garbled"}
WriteFaults == {"none", "status", "transport", "lost", "garbled"}
DeleteFaults == {"none", "status", "transport", "lost"}

\* the entries of the service after it was sent the request
Apply(st, method, key, text, fault) ==
  IF fault \in {"transport", "status"} THEN st
  ELSE IF method = "POST" THEN [k \in DOMAIN st \cup {key} |-> IF k = key THEN text ELSE st[k]]
  ELSE IF method = "DELETE" THEN [k \in DOMAIN st \ {key} |-> st[k]]
  ELSE st

\* what client.Do hands back for the request
Respond(st, method, key, fault) ==
  [doErr |-> fault \in {"transport", "lost"},
   status |-> IF fault = "status" THEN StatusOther
              ELSE IF method \in {"GET", "DELETE"} /\ key \notin DOMAIN st THEN StatusNotFound
              ELSE StatusOK,
   jsonOk |-> fault # "garbled",
   value |-> IF method = "GET" /\ key \in DOMAIN st THEN st[key] ELSE <<>>]

(* --------------------------- Store, Load, Delete ---------------------- *)

\* Store: the error it returns and the entries of the service afterwards
Store(st, key, value, fault) ==
  LET encodedValue == EncodeToString(value)
      resp == Respond(st, "POST", key, fault)
      after == Apply(st, "POST", key, encodedValue, fault)
  IN IF resp.doErr THEN [err |-> "execute", status |-> 0, store |-> after]
     ELSE IF resp.status # StatusOK THEN [err |-> "status", status |-> resp.status, store |-> after]
     ELSE [err |-> "nil", status |-> resp.status, store |-> after]

\* the superseded Store of the README listing: the value goes out as plain text
StorePlain(st, key, value, fault) ==
  LET resp == Respond(st, "POST", key, fault)
      after == Apply(st, "POST", key, value, fault)
  IN IF resp.doErr THEN [err |-> "execute", status |-> 0, store |-> after]
     ELSE IF resp.status # StatusOK THEN [err |-> "status", status |-> resp.status, store |-> after]
     ELSE [err |-> "nil", status |-> resp.status, store |-> after]

\* Load without the base64 step (the README listing's Load)
Load_Plain(st, key, fault) ==
  LET resp == Respond(st, "GET", key, fault)
  IN IF resp.doErr THEN [err |-> "execute", status |-> 0, val |-> <<>>]
     ELSE IF resp.status = StatusNotFound THEN [err |-> "ErrNotExist", status |-> resp.status, val |-> <<>>]
     ELSE IF resp.status # StatusOK THEN [err |-> "status", status |-> resp.status, val |-> <<>>]
     ELSE IF ~resp.jsonOk THEN [err |-> "decode", status |-> resp.status, val |-> <<>>]
     ELSE [err |-> "nil", status |-> resp.status, val |-> resp.value]

\* Load that takes a 404 for an empty value
Load_NotFoundAsEmpty(st, key, fault) ==
  LET resp == Respond(st, "GET", key, fault)
      dec == DecodeString(resp.value)
  IN IF resp.doErr THEN [err |-> "execute", status |-> 0, val |-> <<>>]
     ELSE IF resp.status = StatusNotFound THEN [err |-> "nil", status |-> resp.status, val |-> <<>>]
     ELSE IF resp.status # StatusOK THEN [err |-> "status", status |-> resp.status, val |-> <<>>]
     ELSE IF ~resp.jsonOk THEN [err |-> "decode", status |-> resp.status, val |-> <<>>]
     ELSE IF dec.err THEN [err |-> "nil", status |-> resp.status, val |-> resp.value]
     ELSE [err |-> "nil", status |-> resp.status, val |-> dec.out]

\* Load that fails on a value that is not base64 (the variant without fallback)
Load_Strict(st, key, fault) ==
  LET resp == Respond(st, "GET", key, fault)
      dec == DecodeString(resp.value)
  IN IF resp.doErr THEN [err |-> "execute", status |-> 0, val |-> <<>>]
     ELSE IF resp.status = StatusNotFound THEN [err |-> "ErrNotExist", status |-> resp.status, val |-> <<>>]
     ELSE IF resp.status # StatusOK THEN [err |-> "status", status |-> resp.status, val |-> <<>>]
     ELSE IF ~resp.jsonOk THEN [err |-> "decode", status |-> resp.status, val |-> <<>>]
     ELSE IF dec.err THEN [err |-> "base64", status |-> resp.status, val |-> <<>>]
     ELSE [err |-> "nil", status |-> resp.status, val |-> dec.out]

\* Load: the error and the bytes it returns
Load(st, key, fault) ==
  LET resp == Respond(st, "GET", key, fault)
      dec == DecodeString(resp.value)
  IN IF resp.doErr THEN [err |-> "execute", status |-> 0, val |-> <<>>]
     ELSE IF resp.status = StatusNotFound THEN [err |-> "ErrNotExist", status |-> resp.status, val |-> <<>>]
     ELSE IF resp.status # StatusOK THEN [err |-> "status", status |-> resp.status, val |-> <<>>]
     ELSE IF ~resp.jsonOk THEN [err |-> "decode", status |-> resp.status, val |-> <<>>]
     ELSE IF dec.err THEN [err |-> "nil", status |-> resp.status, val |-> resp.value]
     ELSE [err |-> "nil", status |-> resp.status, val |-> dec.out]

\* Delete that reports a 404 like any other refusal
Delete_NoNotFound(st, key, fault) ==
  LET resp == Respond(st, "DELETE", key, fault)
      after == Apply(st, "DELETE", key, <<>>, fault)
  IN IF resp.doErr THEN [err |-> "execute", status |-> 0, store |-> after]
     ELSE IF resp.status # StatusOK THEN [err |-> "status", status |-> resp.status, store |-> after]
     ELSE [err |-> "nil", status |-> resp.status, store |-> after]

\* Delete: the error it returns and the entries of the service afterwards
Delete(st, key, fault) ==
  LET resp == Respond(st, "DELETE", key, fault)
      after == Apply(st, "DELETE", key, <<>>, fault)
  IN IF resp.doErr THEN [err |-> "execute", status |-> 0, store |-> after]
     ELSE IF resp.status = StatusNotFound THEN [err |-> "ErrNotExist", status |-> resp.status, store |-> after]
     ELSE IF resp.status # StatusOK THEN [err |-> "status", status |-> resp.status, store |-> after]
     ELSE [err |-> "nil", status |-> resp.status, store |-> after]

(* ------------------------- Provision, Validate ------------------------ *)

\* "https://us-east-1.kv.enzonix.com"
DefaultEndpoint ==
  <<104, 116, 116, 112, 115, 58, 47, 47, 117, 115, 45, 101, 97, 115, 116,
    45, 49, 46, 107, 118, 46, 101, 110, 122, 111, 110, 105, 120, 46, 99,
    111, 109>>

\* strings.TrimSuffix
TrimSuffix(str, suffix) ==
  IF Len(str) >= Len(suffix) /\ SubSeq(str, Len(str) - Len(suffix) + 1, Len(str)) = suffix
  THEN SubSeq(str, 1, Len(str) - Len(suffix))
  ELSE str

\* Provision: the fields of s afterwards
Provision(s) ==
  LET endpoint == IF s.Endpoint = <<>> THEN DefaultEndpoint ELSE s.Endpoint
  IN [s EXCEPT !.Endpoint = TrimSuffix(endpoint, <<Slash>>)]

\* Validate that asks for an endpoint as well
Validate_EndpointRequired(s) ==
  IF s.Namespace = <<>> THEN "namespace"
  ELSE IF s.APIKey = <<>> THEN "api_key"
  ELSE IF s.Endpoint = <<>> THEN "endpoint"
  ELSE "nil"

\* Validate: "nil", or the field its error names
Validate(s) ==
  IF s.Namespace = <<>> THEN "namespace"
  ELSE IF s.APIKey = <<>> THEN "api_key"
  ELSE "nil"

(* ----------------------------- Stat, Exists --------------------------- *)

\* certmagic.KeyInfo{}: no key, zero time, zero size, not terminal
NoInfo == [Key |-> <<>>, Modified |-> 0, Size |-> 0, IsTerminal |-> FALSE]

\* Stat that reports every failed Load as a missing key
Stat_AllNotFound(st, key, fault) ==
  LET r == Load(st, key, fault)
  IN IF r.err # "nil"
     THEN [err |-> "ErrNotExist", status |-> r.status, info |-> NoInfo, load |-> r.err]
     ELSE [err |-> "nil", status |-> r.status,
           info |-> [Key |-> key, Modified |-> 0, Size |-> 0, IsTerminal |-> TRUE],
           load |-> r.err]

\* Stat: the error and the KeyInfo it returns; load is the error its Load returned
Stat(st, key, fault) ==
  LET r == Load(st, key, fault)
  IN IF r.err # "nil"
     THEN IF r.err = "ErrNotExist"
          THEN [err |-> "ErrNotExist", status |-> r.status, info |-> NoInfo, load |-> r.err]
          ELSE [err |-> r.err, status |-> r.status, info |-> NoInfo, load |-> r.err]
     ELSE [err |-> "nil", status |-> r.status,
           info |-> [Key |-> key, Modified |-> 0, Size |-> 0, IsTerminal |-> TRUE],
           load |-> r.err]

\* Exists that takes every answer but a 404 for a key that is there
Exists_UnlessNotFound(st, key, fault) ==
  LET r == Load(st, key, fault)
  IN [ok |-> r.err # "ErrNotExist", status |-> r.status, load |-> r.err]

\* Exists: err == nil of its Load; load is the error that Load returned
Exists(st, key, fault) ==
  LET r == Load(st, key, fault)
  IN [ok |-> r.err = "nil", status |-> r.status, load |-> r.err]

(* --------------------------- listKeys, Lock --------------------------- *)

\* the rule that ignores the slash right after the prefix
immediateChild_NoTrim(key, prefix) ==
  LET remainder == TrimPrefix(key, prefix)
  IN remainder = <<>> \/ ~Contains(remainder, Slash)

\* listKeys, recursive = false: no path separator after the prefix and one slash
immediateChild(key, prefix) ==
  LET remainder == TrimPrefix(TrimPrefix(key, prefix), <<Slash>>)
  IN remainder = <<>> \/ ~Contains(remainder, Slash)

\* the test that applies the immediate-child rule whatever the flag
keep_IgnoreRecursive(key, prefix, recursive) ==
  HasPrefix(key, prefix) /\ immediateChild(key, prefix)

\* the test that looks for the prefix anywhere in the key
keep_Anywhere(key, prefix, recursive) ==
  /\ \E i \in 0..Len(key) : HasPrefix(SubSeq(key, i + 1, Len(key)), prefix)
  /\ (recursive \/ immediateChild(key, prefix))

\* listKeys: whether the loop appends key to filteredKeys
keep(key, prefix, recursive) ==
  HasPrefix(key, prefix) /\ (recursive \/ immediateChild(key, prefix))

\* the filter loop of listKeys over the key sequence the service returned
RECURSIVE filterKeys(_, _, _)
filterKeys(keys, prefix, recursive) ==
  IF Len(keys) = 0 THEN <<>>
  ELSE IF keep(keys[1], prefix, recursive)
       THEN <<keys[1]>> \o filterKeys(Tail(keys), prefix, recursive)
       ELSE filterKeys(Tail(keys), prefix, recursive)

\* listKeys: the service is asked for every key of the namespace, in its order
listKeys(keys, prefix, recursive, fault) ==
  IF fault = "transport" THEN [err |-> "execute", out |-> <<>>]
  ELSE IF fault = "status" THEN [err |-> "status", out |-> <<>>]
  ELSE IF fault = "garbled" THEN [err |-> "decode", out |-> <<>>]
  ELSE [err |-> "nil", out |-> filterKeys(keys, prefix, recursive)]

\* List
List(keys, prefix, recursive, fault) == listKeys(keys, prefix, recursive, fault)

\* one lock record for every key
lockKeyOf_Shared(key) == LockSuffix

lockKeyOf(key) == key \o LockSuffix

\* the superseded Lock: no look at the record that exists
checkExisting_Naive(r, t) ==
  IF r.err \in {"nil", "ErrNotExist"} THEN "proceed" ELSE "check"

\* the decision that never takes a record for abandoned
checkExisting_NeverStale(r, t) ==
  IF r.err = "nil" THEN "exists"
  ELSE IF r.err # "ErrNotExist" THEN "check"
  ELSE "proceed"

\* the decision that takes every failed read for a missing record
checkExisting_ErrorsAsAbsent(r, t) ==
  IF r.err = "nil"
  THEN LET parsed == Sscanf(r.val)
       IN IF parsed.ok
          THEN IF t - parsed.n < StaleMinutes THEN "exists" ELSE "proceed"
          ELSE "exists"
  ELSE "proceed"

\* the decision with the age test turned round
checkExisting_InvertedAge(r, t) ==
  IF r.err = "nil"
  THEN LET parsed == Sscanf(r.val)
       IN IF parsed.ok
          THEN IF t - parsed.n >= StaleMinutes THEN "exists" ELSE "proceed"
          ELSE "exists"
  ELSE IF r.err # "ErrNotExist" THEN "check"
  ELSE "proceed"

\* the decision that still takes a record of exactly StaleMinutes for live
checkExisting_InclusiveBoundary(r, t) ==
  IF r.err = "nil"
  THEN LET parsed == Sscanf(r.val)
       IN IF parsed.ok
          THEN IF t - parsed.n <= StaleMinutes THEN "exists" ELSE "proceed"
          ELSE "exists"
  ELSE IF r.err # "ErrNotExist" THEN "check"
  ELSE "proceed"

\* the decision that takes a missing record for a failed read
checkExisting_NotFoundFails(r, t) ==
  IF r.err = "nil"
  THEN LET parsed == Sscanf(r.val)
       IN IF parsed.ok
          THEN IF t - parsed.n < StaleMinutes THEN "exists" ELSE "proceed"
          ELSE "exists"
  ELSE "check"

\* Lock, from the first Load to the decision to write: "exists" and "check" are
\* the two errors it can return there, "proceed" goes on to the Store.
\* r is what Load returned and t the clock read by time.Since.
checkExisting(r, t) ==
  IF r.err = "nil"
  THEN LET parsed == Sscanf(r.val)
       IN IF parsed.ok
          THEN IF t - parsed.n < StaleMinutes THEN "exists" ELSE "proceed"
          ELSE "exists"
  ELSE IF r.err # "ErrNotExist" THEN "check"
  ELSE "proceed"

\* the verification that takes a record that is gone for its own
verifyLock_NotFoundOk(r, lockValue) ==
  IF r.err = "ErrNotExist" THEN "nil"
  ELSE IF r.err # "nil" THEN "verify"
  ELSE IF r.val # lockValue THEN "raced"
  ELSE "nil"

\* the verification that compares nothing
verifyLock_NoCompare(r, lockValue) ==
  IF r.err # "nil" THEN "verify" ELSE "nil"

\* Lock, after the verifying Load: the error it returns
verifyLock(r, lockValue) ==
  IF r.err # "nil" THEN "verify"
  ELSE IF r.val # lockValue THEN "raced"
  ELSE "nil"

(* ------------------------------- state -------------------------------- *)

VARIABLES
  store,     \* the entries of the remote namespace: key -> value text
  last,      \* the call that has just returned to the caller, NoCall once taken
  written,   \* per key, what the completed calls say it holds
  listing,   \* the List call that has just returned, NoList once taken
  now,       \* the wall clock, in minutes
  pc,        \* per caller, where its Lock or Unlock call stands
  op,        \* per caller, the call it is in: "Lock", "Unlock" or "none"
  lkey,      \* per caller, the key its call names
  lval,      \* per caller, the time its Lock call read at its start
  res,       \* per caller, the error its call returned
  calls,     \* per caller, the remote calls its call has made, in order
  held,      \* per key, the timestamp of the Lock that succeeded last, while
             \* nothing has written or deleted the lock record since
  disturbed, \* per caller, whether someone else changed the lock record under its call
  seen,      \* per caller, what the lock record was when its call first reached the service
  cfg        \* the KVStorage value: its fields, whether Provision ran, what Validate said

kvVars == <<last, written>>
listVars == <<listing>>
lockVars == <<now, pc, op, lkey, lval, res, calls, held, disturbed, seen>>
vars == <<store, last, written, listing, now, pc, op, lkey, lval, res, calls, held, disturbed, seen, cfg>>

\* "a" and "a/b"
DataKeys == {<<97>>, <<97, 47, 98>>}

\* bytes the stored values are made of: zero, and a byte no UTF-8 text holds
SampleBytes == {0, 255}

RECURSIVE SeqsUpTo(_, _)
SeqsUpTo(S, n) ==
  IF n = 0 THEN {<<>>}
  ELSE LET shorter == SeqsUpTo(S, n - 1)
       IN shorter \cup {Append(q, x) : q \in {r \in shorter : Len(r) = n - 1}, x \in S}

Values == SeqsUpTo(SampleBytes, MaxValLen)

\* texts left by the plain-text Store: "hi", "hi=", "hi!!", "abcd", "QUFB" with a
\* line break, "QR==", "QQ==QQ==", "===="
LegacyTexts ==
  {<<104, 105>>, <<104, 105, 61>>, <<104, 105, 33, 33>>, <<97, 98, 99, 100>>,
   <<81, 85, 10, 70, 66>>, <<81, 82, 61, 61>>, <<81, 81, 61, 61, 81, 81, 61, 61>>,
   <<61, 61, 61, 61>>}

\* the keys a namespace may hold when listed: "a", "a/b", "a/b/c", "ab", "a//b", "b"
ListKeys ==
  {<<97>>, <<97, 47, 98>>, <<97, 47, 98, 47, 99>>, <<97, 98>>, <<97, 47, 47, 98>>, <<98>>}

\* the prefixes asked for: "", "a", "a/", "a/b", "b", "c"
Prefixes == {<<>>, <<97>>, <<97, 47>>, <<97, 47, 98>>, <<98>>, <<99>>}

\* the callers of Lock and Unlock
Procs == {"p1", "p2"}

\* the key they lock: "a"
LockTargets == {<<97>>}

\* the clock's first reading
ClockStart == 8

\* values another party leaves in a lock record: a timestamp four minutes old
\* at the clock's first reading ("4"), one ahead of every reading ("30"), "2x",
\* "x" and ""
OtherLockValues == {<<52>>, <<51, 48>>, <<50, 120>>, <<120>>, <<>>}

NoCall == [op |-> "none", key |-> <<>>, err |-> "nil", status |-> 0, val |-> <<>>]

NoList == [keys |-> <<>>, prefix |-> <<>>, recursive |-> FALSE, err |-> "none", out |-> <<>>]

Never == [kind |-> "never", val |-> <<>>]

None == 0 - 1

\* the endpoints a configuration may name: "", "h", "h/", "h//", "/"
Endpoints == {<<>>, <<104>>, <<104, 47>>, <<104, 47, 47>>, <<47>>}

\* the namespaces it may name: "", "n", " "
Namespaces == {<<>>, <<110>>, <<32>>}

\* the API keys it may name: "", "k", " "
APIKeys == {<<>>, <<107>>, <<32>>}

\* the storage the calls below go through: loaded, provisioned and validated
Configured ==
  [Endpoint |-> DefaultEndpoint, Namespace |-> <<110>>, APIKey |-> <<107>>,
   provisioned |-> TRUE, validate |-> "nil"]

IdleLock ==
  /\ now = ClockStart
  /\ pc = [p \in Procs |-> "idle"]
  /\ op = [p \in Procs |-> "none"]
  /\ lkey = [p \in Procs |-> <<>>]
  /\ lval = [p \in Procs |-> 0]
  /\ res = [p \in Procs |-> "none"]
  /\ calls = [p \in Procs |-> <<>>]
  /\ held = [k \in LockTargets |-> None]
  /\ disturbed = [p \in Procs |-> FALSE]
  /\ seen = [p \in Procs |-> "none"]

(* ------------------- Store, Load and Delete by a caller --------------- *)

InitKV ==
  /\ store = [k \in {} |-> <<>>]
  /\ last = NoCall
  /\ written = [k \in DataKeys |-> Never]
  /\ listing = NoList
  /\ IdleLock
  /\ cfg = Configured

\* a caller stores value under key
DoStore(key, value, fault) ==
  LET r == Store(store, key, value, fault)
  IN /\ last = NoCall
     /\ store' = r.store
     /\ last' = [op |-> "Store", key |-> key,
                 err |-> r.err, status |-> r.status, val |-> <<>>]
     /\ written' = [written EXCEPT ![key] =
                      IF r.err = "nil" THEN [kind |-> "stored", val |-> value]
                      ELSE IF fault = "lost" THEN [kind |-> "other", val |-> <<>>]
                      ELSE @]
     /\ UNCHANGED <<cfg, listVars, lockVars>>

\* a caller loads key
DoLoad(key, fault) ==
  LET r == Load(store, key, fault)
  IN /\ last = NoCall
     /\ last' = [op |-> "Load", key |-> key,
                 err |-> r.err, status |-> r.status, val |-> r.val]
     /\ UNCHANGED <<cfg, store, written, listVars, lockVars>>

\* a caller deletes key
DoDelete(key, fault) ==
  LET r == Delete(store, key, fault)
  IN /\ last = NoCall
     /\ store' = r.store
     /\ last' = [op |-> "Delete", key |-> key,
                 err |-> r.err, status |-> r.status, val |-> <<>>]
     /\ written' = [written EXCEPT ![key] =
                      IF r.err = "nil" THEN [kind |-> "deleted", val |-> <<>>]
                      ELSE IF fault = "lost" THEN [kind |-> "other", val |-> <<>>]
                      ELSE @]
     /\ UNCHANGED <<cfg, listVars, lockVars>>

\* a caller asks for the KeyInfo of key
DoStat(key, fault) ==
  LET r == Stat(store, key, fault)
  IN /\ last = NoCall
     /\ last' = [op |-> "Stat", key |-> key, err |-> r.err, status |-> r.status,
                 val |-> <<>>, info |-> r.info, load |-> r.load]
     /\ UNCHANGED <<cfg, store, written, listVars, lockVars>>

\* a caller asks whether key exists
DoExists(key, fault) ==
  LET r == Exists(store, key, fault)
  IN /\ last = NoCall
     /\ last' = [op |-> "Exists", key |-> key, err |-> "nil", status |-> r.status,
                 val |-> <<>>, ok |-> r.ok, load |-> r.load]
     /\ UNCHANGED <<cfg, store, written, listVars, lockVars>>

\* another writer, running the plain-text Store, leaves text under key
DoStorePlain(key, text) ==
  LET r == StorePlain(store, key, text, "none")
  IN /\ last = NoCall
     /\ store' = r.store
     /\ written' = [written EXCEPT ![key] = [kind |-> "other", val |-> <<>>]]
     /\ UNCHANGED <<cfg, last, listVars, lockVars>>

\* the caller takes the result; its calls are synchronous, one after the other
Return ==
  /\ last # NoCall
  /\ last' = NoCall
  /\ UNCHANGED <<cfg, store, written, listVars, lockVars>>

NextKV ==
  \/ Return
  \/ \E key \in DataKeys, value \in Values, fault \in WriteFaults : DoStore(key, value, fault)
  \/ \E key \in DataKeys, fault \in ReadFaults : DoLoad(key, fault)
  \/ \E key \in DataKeys, fault \in DeleteFaults : DoDelete(key, fault)
  \/ \E key \in DataKeys, fault \in ReadFaults : DoStat(key, fault)
  \/ \E key \in DataKeys, fault \in ReadFaults : DoExists(key, fault)
  \/ \E key \in DataKeys, text \in LegacyTexts : DoStorePlain(key, text)

Spec == InitKV /\ [][NextKV]_vars

(* -------------------------------- List -------------------------------- *)

\* the orders in which the service may list the key set S
RECURSIVE Orders(_)
Orders(S) ==
  IF S = {} THEN {<<>>}
  ELSE UNION {{<<x>> \o q : q \in Orders(S \ {x})} : x \in S}

\* the namespace holds any set of at most MaxKeys keys
InitList ==
  /\ \E S \in SUBSET ListKeys :
       /\ Cardinality(S) <= MaxKeys
       /\ store = [k \in S |-> <<>>]
  /\ last = NoCall
  /\ written = [k \in DataKeys |-> Never]
  /\ listing = NoList
  /\ IdleLock
  /\ cfg = Configured

\* a caller lists the keys under prefix
DoList(keys, prefix, recursive, fault) ==
  LET r == List(keys, prefix, recursive, fault)
  IN /\ listing = NoList
     /\ listing' = [keys |-> keys, prefix |-> prefix, recursive |-> recursive,
                    err |-> r.err, out |-> r.out]
     /\ UNCHANGED <<cfg, store, kvVars, lockVars>>

\* the caller takes the listing
ReturnList ==
  /\ listing # NoList
  /\ listing' = NoList
  /\ UNCHANGED <<cfg, store, kvVars, lockVars>>

NextList ==
  \/ ReturnList
  \/ /\ listing = NoList
     /\ \E keys \in Orders(DOMAIN store), prefix \in Prefixes, recursive \in BOOLEAN,
           fault \in ReadFaults : DoList(keys, prefix, recursive, fault)

SpecList == InitList /\ [][NextList]_vars

(* ---------------------------- Lock, Unlock ---------------------------- *)

\* data is stored under the keys that get locked; no lock record exists
InitLock ==
  /\ store = [k \in LockTargets |-> EncodeToString(<<255>>)]
  /\ last = NoCall
  /\ written = [k \in DataKeys |-> Never]
  /\ listing = NoList
  /\ IdleLock
  /\ cfg = Configured

\* the timestamps a lock record may carry
TimeStamps == 0..(ClockStart + MaxTick + 30)

\* the lock record of key as the protocol describes it at clock reading t:
\* absent, the decimal timestamp of a Lock less than StaleMinutes old ("live")
\* or older ("stale"), or anything else ("opaque")
RecordClass(st, key, t) ==
  IF lockKeyOf(key) \notin DOMAIN st THEN "absent"
  ELSE IF \E ts \in TimeStamps : st[lockKeyOf(key)] = EncodeToString(Sprintf(ts))
       THEN LET ts == CHOOSE x \in TimeStamps : st[lockKeyOf(key)] = EncodeToString(Sprintf(x))
            IN IF t - ts >= StaleMinutes THEN "stale" ELSE "live"
       ELSE "opaque"

\* the request reaches the service and changes its entries
Applied(fault) == fault \in {"none", "lost", "garbled"}

\* the callers, other than p, whose call on key is under way
Others(p, key) == {q \in Procs \ {p} : pc[q] # "idle" /\ lkey[q] = key}

Call(name, r) == [op |-> name, err |-> r.err]

\* Lock: lockKey := key + ".lock"; lockValue := the clock's reading
LockBegin(p, key) ==
  /\ pc[p] = "idle"
  /\ pc' = [pc EXCEPT ![p] = "check"]
  /\ op' = [op EXCEPT ![p] = "Lock"]
  /\ lkey' = [lkey EXCEPT ![p] = key]
  /\ lval' = [lval EXCEPT ![p] = now]
  /\ UNCHANGED <<cfg, store, kvVars, listVars, now, res, calls, held, disturbed, seen>>

\* the existence check that removes a record it cannot parse before failing
LockCheck_ClearsOpaque(p, fault) ==
  LET r == Load(store, lockKeyOf(lkey[p]), fault)
      d == checkExisting(r, now)
  IN /\ pc[p] = "check"
     /\ calls' = [calls EXCEPT ![p] = Append(@, Call("Load", r))]
     /\ IF d = "proceed"
        THEN /\ pc' = [pc EXCEPT ![p] = "write"]
             /\ UNCHANGED res
        ELSE /\ pc' = [pc EXCEPT ![p] = "returned"]
             /\ res' = [res EXCEPT ![p] = d]
     /\ store' = IF r.err = "nil" /\ ~Sscanf(r.val).ok
                 THEN Delete(store, lockKeyOf(lkey[p]), "none").store
                 ELSE store
     /\ seen' = [seen EXCEPT ![p] = RecordClass(store, lkey[p], now)]
     /\ UNCHANGED <<cfg, kvVars, listVars, now, op, lkey, lval, held, disturbed>>

\* the existence check that waits for a live lock to go away and looks again
LockCheck_Polls(p, fault) ==
  LET r == Load(store, lockKeyOf(lkey[p]), fault)
      d == checkExisting(r, now)
  IN /\ pc[p] = "check"
     /\ calls' = [calls EXCEPT ![p] = Append(@, Call("Load", r))]
     /\ IF d = "proceed"
        THEN /\ pc' = [pc EXCEPT ![p] = "write"]
             /\ UNCHANGED res
        ELSE IF d = "exists"
        THEN UNCHANGED <<pc, res>>
        ELSE /\ pc' = [pc EXCEPT ![p] = "returned"]
             /\ res' = [res EXCEPT ![p] = d]
     /\ seen' = [seen EXCEPT ![p] = RecordClass(store, lkey[p], now)]
     /\ UNCHANGED <<cfg, store, kvVars, listVars, now, op, lkey, lval, held, disturbed>>

\* Lock: the Load of the lock record and the staleness decision
LockCheck(p, fault) ==
  LET r == Load(store, lockKeyOf(lkey[p]), fault)
      d == checkExisting(r, now)
  IN /\ pc[p] = "check"
     /\ calls' = [calls EXCEPT ![p] = Append(@, Call("Load", r))]
     /\ IF d = "proceed"
        THEN /\ pc' = [pc EXCEPT ![p] = "write"]
             /\ UNCHANGED res
        ELSE /\ pc' = [pc EXCEPT ![p] = "returned"]
             /\ res' = [res EXCEPT ![p] = d]
     /\ seen' = [seen EXCEPT ![p] = RecordClass(store, lkey[p], now)]
     /\ UNCHANGED <<cfg, store, kvVars, listVars, now, op, lkey, lval, held, disturbed>>

\* Lock: the Store of the lock record
LockWrite(p, fault) ==
  LET r == Store(store, lockKeyOf(lkey[p]), Sprintf(lval[p]), fault)
  IN /\ pc[p] = "write"
     /\ store' = r.store
     /\ calls' = [calls EXCEPT ![p] = Append(@, Call("Store", r))]
     /\ IF r.err = "nil"
        THEN /\ pc' = [pc EXCEPT ![p] = "verify"]
             /\ UNCHANGED res
        ELSE /\ pc' = [pc EXCEPT ![p] = "returned"]
             /\ res' = [res EXCEPT ![p] = "acquire"]
     /\ held' = IF Applied(fault) THEN [held EXCEPT ![lkey[p]] = None] ELSE held
     /\ disturbed' = [q \in Procs |->
                        IF Applied(fault) /\ q \in Others(p, lkey[p]) THEN TRUE ELSE disturbed[q]]
     /\ UNCHANGED <<cfg, kvVars, listVars, now, op, lkey, lval, seen>>

\* Lock: the verifying Load and the comparison with lockValue
LockVerify(p, fault) ==
  LET r == Load(store, lockKeyOf(lkey[p]), fault)
      e == verifyLock(r, Sprintf(lval[p]))
  IN /\ pc[p] = "verify"
     /\ calls' = [calls EXCEPT ![p] = Append(@, Call("Load", r))]
     /\ pc' = [pc EXCEPT ![p] = "returned"]
     /\ res' = [res EXCEPT ![p] = e]
     /\ held' = IF e = "nil" THEN [held EXCEPT ![lkey[p]] = lval[p]] ELSE held
     /\ UNCHANGED <<cfg, store, kvVars, listVars, now, op, lkey, lval, disturbed, seen>>

\* the Unlock that leaves a record alone while it is live
Unlock_KeepsLive(p, key, fault) ==
  LET r == IF RecordClass(store, key, now) = "live"
           THEN [err |-> "exists", status |-> StatusOK, store |-> store]
           ELSE Delete(store, lockKeyOf(key), fault)
  IN /\ pc[p] = "idle"
     /\ store' = r.store
     /\ pc' = [pc EXCEPT ![p] = "returned"]
     /\ op' = [op EXCEPT ![p] = "Unlock"]
     /\ lkey' = [lkey EXCEPT ![p] = key]
     /\ res' = [res EXCEPT ![p] = r.err]
     /\ calls' = [calls EXCEPT ![p] = <<Call("Delete", r)>>]
     /\ held' = IF Applied(fault) THEN [held EXCEPT ![key] = None] ELSE held
     /\ disturbed' = [q \in Procs |->
                        IF Applied(fault) /\ q \in Others(p, key) THEN TRUE ELSE disturbed[q]]
     /\ seen' = [seen EXCEPT ![p] = RecordClass(store, key, now)]
     /\ UNCHANGED <<cfg, kvVars, listVars, now, lval>>

\* Unlock: Delete of key + ".lock"
Unlock(p, key, fault) ==
  LET r == Delete(store, lockKeyOf(key), fault)
  IN /\ pc[p] = "idle"
     /\ store' = r.store
     /\ pc' = [pc EXCEPT ![p] = "returned"]
     /\ op' = [op EXCEPT ![p] = "Unlock"]
     /\ lkey' = [lkey EXCEPT ![p] = key]
     /\ res' = [res EXCEPT ![p] = r.err]
     /\ calls' = [calls EXCEPT ![p] = <<Call("Delete", r)>>]
     /\ held' = IF Applied(fault) THEN [held EXCEPT ![key] = None] ELSE held
     /\ disturbed' = [q \in Procs |->
                        IF Applied(fault) /\ q \in Others(p, key) THEN TRUE ELSE disturbed[q]]
     /\ seen' = [seen EXCEPT ![p] = RecordClass(store, key, now)]
     /\ UNCHANGED <<cfg, kvVars, listVars, now, lval>>

\* the caller takes the result of its Lock or Unlock call
ReturnLock(p) ==
  /\ pc[p] = "returned"
  /\ pc' = [pc EXCEPT ![p] = "idle"]
  /\ op' = [op EXCEPT ![p] = "none"]
  /\ lkey' = [lkey EXCEPT ![p] = <<>>]
  /\ lval' = [lval EXCEPT ![p] = 0]
  /\ res' = [res EXCEPT ![p] = "none"]
  /\ calls' = [calls EXCEPT ![p] = <<>>]
  /\ disturbed' = [disturbed EXCEPT ![p] = FALSE]
  /\ seen' = [seen EXCEPT ![p] = "none"]
  /\ UNCHANGED <<cfg, store, kvVars, listVars, now, held>>

\* another party stores value as the lock record of key
OtherStore(key, value) ==
  LET r == Store(store, lockKeyOf(key), value, "none")
  IN /\ store' = r.store
     /\ held' = [held EXCEPT ![key] = None]
     /\ disturbed' = [q \in Procs |->
                        IF pc[q] # "idle" /\ lkey[q] = key THEN TRUE ELSE disturbed[q]]
     /\ UNCHANGED <<cfg, kvVars, listVars, now, pc, op, lkey, lval, res, calls, seen>>

\* a minute passes
Tick ==
  /\ now < ClockStart + MaxTick
  /\ now' = now + 1
  /\ UNCHANGED <<cfg, store, kvVars, listVars, pc, op, lkey, lval, res, calls, held, disturbed, seen>>

NextLock ==
  \/ Tick
  \/ \E p \in Procs, key \in LockTargets : LockBegin(p, key)
  \/ \E p \in Procs, fault \in ReadFaults : LockCheck(p, fault)
  \/ \E p \in Procs, fault \in WriteFaults : LockWrite(p, fault)
  \/ \E p \in Procs, fault \in ReadFaults : LockVerify(p, fault)
  \/ \E p \in Procs, key \in LockTargets, fault \in DeleteFaults : Unlock(p, key, fault)
  \/ \E p \in Procs : ReturnLock(p)
  \/ \E key \in LockTargets, value \in OtherLockValues : OtherStore(key, value)

SpecLock == InitLock /\ [][NextLock]_vars

\* the next remote call of p's Lock call returns and the call goes on
LockStep(p) ==
  \/ \E fault \in ReadFaults : LockCheck(p, fault)
  \/ \E fault \in WriteFaults : LockWrite(p, fault)
  \/ \E fault \in ReadFaults : LockVerify(p, fault)

(* ------------------------ loading a configuration -------------------- *)

\* the fields as the JSON or Caddyfile configuration set them
InitConfig ==
  /\ \E endpoint \in Endpoints, namespace \in Namespaces, apiKey \in APIKeys :
       cfg = [Endpoint |-> endpoint, Namespace |-> namespace, APIKey |-> apiKey,
              provisioned |-> FALSE, validate |-> "none"]
  /\ store = [k \in {} |-> <<>>]
  /\ last = NoCall
  /\ written = [k \in DataKeys |-> Never]
  /\ listing = NoList
  /\ IdleLock

\* Caddy provisions the module
DoProvision ==
  /\ ~cfg.provisioned
  /\ cfg' = [Provision(cfg) EXCEPT !.provisioned = TRUE]
  /\ UNCHANGED <<store, kvVars, listVars, lockVars>>

\* Caddy validates the module
DoValidate ==
  /\ cfg.validate = "none"
  /\ cfg' = [cfg EXCEPT !.validate = Validate(cfg)]
  /\ UNCHANGED <<store, kvVars, listVars, lockVars>>

NextConfig ==
  \/ DoProvision
  \/ DoValidate

SpecConfig == InitConfig /\ [][NextConfig]_vars

(* -------- Lock against a record of any age, one caller (SpecAge) -------- *)

\* how far past ClockStart the clock may stand when the caller arrives
ClockSpan == 12

AgeCaller == CHOOSE p \in Procs : TRUE

\* a lock record with some timestamp is there, before or after the clock's
\* reading, when the caller arrives
InitAge ==
  /\ \E t \in ClockStart..(ClockStart + ClockSpan), ts \in 0..(ClockStart + ClockSpan) :
       /\ now = t
       /\ store = [k \in LockTargets \cup {lockKeyOf(key) : key \in LockTargets} |->
                     IF k \in LockTargets THEN EncodeToString(<<255>>)
                     ELSE EncodeToString(Sprintf(ts))]
  /\ last = NoCall
  /\ written = [k \in DataKeys |-> Never]
  /\ listing = NoList
  /\ pc = [p \in Procs |-> "idle"]
  /\ op = [p \in Procs |-> "none"]
  /\ lkey = [p \in Procs |-> <<>>]
  /\ lval = [p \in Procs |-> 0]
  /\ res = [p \in Procs |-> "none"]
  /\ calls = [p \in Procs |-> <<>>]
  /\ held = [k \in LockTargets |-> None]
  /\ disturbed = [p \in Procs |-> FALSE]
  /\ seen = [p \in Procs |-> "none"]
  /\ cfg = Configured

NextAge ==
  \/ Tick
  \/ \E key \in LockTargets : LockBegin(AgeCaller, key)
  \/ \E fault \in ReadFaults : LockCheck(AgeCaller, fault)
  \/ \E fault \in WriteFaults : LockWrite(AgeCaller, fault)
  \/ \E fault \in ReadFaults : LockVerify(AgeCaller, fault)
  \/ ReturnLock(AgeCaller)

SpecAge == InitAge /\ [][NextAge]_vars

(* -------------- Lock and Unlock of two keys (SpecFrame) --------------- *)

\* the keys the callers lock: "a" and "a/b", both holding data
FrameTargets == DataKeys

InitFrame ==
  /\ store = [k \in FrameTargets |-> EncodeToString(<<255>>)]
  /\ last = NoCall
  /\ written = [k \in DataKeys |-> Never]
  /\ listing = NoList
  /\ now = ClockStart
  /\ pc = [p \in Procs |-> "idle"]
  /\ op = [p \in Procs |-> "none"]
  /\ lkey = [p \in Procs |-> <<>>]
  /\ lval = [p \in Procs |-> 0]
  /\ res = [p \in Procs |-> "none"]
  /\ calls = [p \in Procs |-> <<>>]
  /\ held = [k \in FrameTargets |-> None]
  /\ disturbed = [p \in Procs |-> FALSE]
  /\ seen = [p \in Procs |-> "none"]
  /\ cfg = Configured

NextFrame ==
  \/ \E p \in Procs, key \in FrameTargets : LockBegin(p, key)
  \/ \E p \in Procs, fault \in ReadFaults : LockCheck(p, fault)
  \/ \E p \in Procs, fault \in WriteFaults : LockWrite(p, fault)
  \/ \E p \in Procs, fault \in ReadFaults : LockVerify(p, fault)
  \/ \E p \in Procs, key \in FrameTargets, fault \in DeleteFaults : Unlock(p, key, fault)
  \/ \E p \in Procs : ReturnLock(p)

SpecFrame == InitFrame /\ [][NextFrame]_vars

\* every remote call a Lock call is waiting for returns in the end, with a
\* response or with an error
SpecFrameFair == SpecFrame /\ \A p \in Procs : WF_vars(LockStep(p))

(* ------------- the superseded Lock: a bare Store (SpecNaive) ---------- *)

\* the superseded Lock with a look at the record first: a live one is left alone
LockNaive_ChecksFirst(p, key, fault) ==
  LET live == RecordClass(store, key, now) = "live"
      r == IF live THEN [err |-> "exists", status |-> StatusOK, store |-> store]
           ELSE Store(store, lockKeyOf(key), Sprintf(now), fault)
  IN /\ pc[p] = "idle"
     /\ store' = r.store
     /\ pc' = [pc EXCEPT ![p] = "returned"]
     /\ op' = [op EXCEPT ![p] = "Lock"]
     /\ lkey' = [lkey EXCEPT ![p] = key]
     /\ lval' = [lval EXCEPT ![p] = now]
     /\ res' = [res EXCEPT ![p] = IF r.err = "nil" THEN "nil"
                                  ELSE IF live THEN "exists" ELSE "acquire"]
     /\ calls' = [calls EXCEPT ![p] = <<Call("Store", r)>>]
     /\ held' = IF r.err = "nil" THEN [held EXCEPT ![key] = now]
                ELSE IF Applied(fault) /\ ~live THEN [held EXCEPT ![key] = None]
                ELSE held
     /\ disturbed' = [q \in Procs |->
                        IF Applied(fault) /\ ~live /\ q \in Others(p, key)
                        THEN TRUE ELSE disturbed[q]]
     /\ seen' = [seen EXCEPT ![p] = RecordClass(store, key, now)]
     /\ UNCHANGED <<cfg, kvVars, listVars, now>>

\* the superseded Lock: lockValue := the clock's reading; Store of it at
\* key + ".lock"; the error of the Store, wrapped, or nil
LockNaive(p, key, fault) ==
  LET r == Store(store, lockKeyOf(key), Sprintf(now), fault)
  IN /\ pc[p] = "idle"
     /\ store' = r.store
     /\ pc' = [pc EXCEPT ![p] = "returned"]
     /\ op' = [op EXCEPT ![p] = "Lock"]
     /\ lkey' = [lkey EXCEPT ![p] = key]
     /\ lval' = [lval EXCEPT ![p] = now]
     /\ res' = [res EXCEPT ![p] = IF r.err = "nil" THEN "nil" ELSE "acquire"]
     /\ calls' = [calls EXCEPT ![p] = <<Call("Store", r)>>]
     /\ held' = IF r.err = "nil" THEN [held EXCEPT ![key] = now]
                ELSE IF Applied(fault) THEN [held EXCEPT ![key] = None]
                ELSE held
     /\ disturbed' = [q \in Procs |->
                        IF Applied(fault) /\ q \in Others(p, key) THEN TRUE ELSE disturbed[q]]
     /\ seen' = [seen EXCEPT ![p] = RecordClass(store, key, now)]
     /\ UNCHANGED <<cfg, kvVars, listVars, now>>

NextNaive ==
  \/ Tick
  \/ \E p \in Procs, key \in LockTargets, fault \in WriteFaults : LockNaive(p, key, fault)
  \/ \E p \in Procs, key \in LockTargets, fault \in DeleteFaults : Unlock(p, key, fault)
  \/ \E p \in Procs : ReturnLock(p)
  \/ \E key \in LockTargets, value \in OtherLockValues : OtherStore(key, value)

SpecNaive == InitLock /\ [][NextNaive]_vars

(* ------------------------------ properties ---------------------------- *)

Range(q) == {q[i] : i \in DOMAIN q}

\* the remote service answered the exchange: no transport failure, no status
\* other than 200 and 404, a well-formed body
AnsweredErr(e) == e \in {"nil", "ErrNotExist"}

\* every remote call caller p's call has made was answered
AllAnswered(p) == \A i \in DOMAIN calls[p] : AnsweredErr(calls[p][i].err)

\* the text of the lock record a Lock that read the clock at ts writes
RecordOf(ts) == EncodeToString(Sprintf(ts))

\* p's Lock call makes its existence check in this step
ChecksNow(p) == pc[p] = "check" /\ pc'[p] # "check"

\* C1: when a Lock of a key has succeeded and nothing has written or deleted the
\* lock record since, a further Lock of the key whose existence check is
\* answered less than five minutes after the first call's timestamp returns the
\* contention error at that check, and the record still holds that timestamp.
C1_SequentialExclusion ==
  [][\A p \in Procs :
       (/\ ChecksNow(p)
        /\ held[lkey[p]] # None
        /\ now - held[lkey[p]] < StaleMinutes
        /\ AnsweredErr(calls'[p][1].err))
       => (/\ pc'[p] = "returned"
           /\ res'[p] = "exists"
           /\ lockKeyOf(lkey[p]) \in DOMAIN store'
           /\ store'[lockKeyOf(lkey[p])] = RecordOf(held[lkey[p]]))]_vars

\* a second Lock has failed on the record of a Lock that succeeded before it
C1_Witness ==
  \E p \in Procs :
    /\ pc[p] = "returned" /\ op[p] = "Lock" /\ res[p] = "exists"
    /\ seen[p] = "live"
    /\ held[lkey[p]] # None
    /\ store[lockKeyOf(lkey[p])] = RecordOf(held[lkey[p]])
    /\ \A q \in Procs \ {p} : pc[q] = "idle"

\* C2: a Lock call whose existence check found the timestamp of a Lock at
\* least five minutes old, whose remote calls were all answered and under which
\* nobody else changed the record, returns success, and the record then holds
\* the timestamp this call read at its start.
C2_StalenessOverride ==
  \A p \in Procs :
    (/\ pc[p] = "returned" /\ op[p] = "Lock"
     /\ seen[p] = "stale"
     /\ ~disturbed[p]
     /\ AllAnswered(p))
    => (/\ res[p] = "nil"
        /\ Len(calls[p]) = 3
        /\ lockKeyOf(lkey[p]) \in DOMAIN store
        /\ store[lockKeyOf(lkey[p])] = RecordOf(lval[p]))

\* a Lock has taken over the record "4" of another party, five minutes old
C2_Witness ==
  \E p \in Procs :
    /\ pc[p] = "returned" /\ op[p] = "Lock" /\ res[p] = "nil"
    /\ seen[p] = "stale" /\ ~disturbed[p]
    /\ lval[p] = ClockStart + 1
    /\ store[lockKeyOf(lkey[p])] = RecordOf(ClockStart + 1)

\* C3: an Unlock that finds no lock record, and is answered, returns no error.
C3_UnlockIdempotent ==
  \A p \in Procs :
    (/\ pc[p] = "returned" /\ op[p] = "Unlock"
     /\ seen[p] = "absent"
     /\ AllAnswered(p))
    => res[p] = "nil"

\* an Unlock of a key that has no lock record was answered 404 and has returned
\* the ErrNotExist of Delete
C3_Witness ==
  \E p \in Procs :
    /\ pc[p] = "returned" /\ op[p] = "Unlock"
    /\ seen[p] = "absent"
    /\ lockKeyOf(lkey[p]) \notin DOMAIN store
    /\ calls[p] = <<[op |-> "Delete", err |-> "ErrNotExist"]>>
    /\ res[p] = "ErrNotExist"

\* C4: a Load that is answered, of a key whose last write was a successful
\* Store of v with no other writer since, returns v and no error.
C4_RoundTrip ==
  (/\ last.op = "Load"
   /\ last.status \in {StatusOK, StatusNotFound} /\ last.err # "decode"
   /\ written[last.key].kind = "stored")
  => (last.err = "nil" /\ last.val = written[last.key].val)

\* a Load has returned the stored bytes ff 00 ff, which are no UTF-8 text
C4_Witness ==
  /\ last.op = "Load" /\ last.err = "nil"
  /\ written[last.key] = [kind |-> "stored", val |-> <<255, 0, 255>>]
  /\ last.val = <<255, 0, 255>>

\* C5: whatever Store and Delete calls came before, a Load of a key that is
\* answered returns the bytes of the last successful Store when that was the
\* last successful call to change the key, and ErrNotExist when a Delete was.
C5_LastWriteWins ==
  \A key \in DataKeys :
    LET r == Load(store, key, "none")
    IN /\ written[key].kind = "stored" => (r.err = "nil" /\ r.val = written[key].val)
       /\ written[key].kind = "deleted" => r.err = "ErrNotExist"

\* a Load has returned ErrNotExist for a key that was stored and then deleted,
\* while the other key still holds what was stored there
C5_Witness ==
  /\ last.op = "Load" /\ last.err = "ErrNotExist"
  /\ written[last.key].kind = "deleted"
  /\ \E other \in DataKeys \ {last.key} : written[other].kind = "stored"

\* C6: Load and Delete of a key never written, when answered, return ErrNotExist;
\* they return ErrNotExist exactly on status 404, and on any other status that
\* is not 200 the error of a failed request.
C6_NotFound ==
  last.op \in {"Load", "Delete"} =>
    /\ (written[last.key].kind = "never" /\ last.status \in {StatusOK, StatusNotFound})
         => last.err = "ErrNotExist"
    /\ last.err = "ErrNotExist" <=> last.status = StatusNotFound
    /\ (last.status \notin {0, StatusOK, StatusNotFound}) => last.err = "status"

\* a Delete of a key never written has returned ErrNotExist
C6_Witness ==
  /\ last.op = "Delete" /\ last.err = "ErrNotExist"
  /\ written[last.key].kind = "never"

Base64Alphabet == (65..90) \cup (97..122) \cup (48..57) \cup {43, 47}

\* text is standard base64 as DecodeString takes it: line breaks aside, groups
\* of four characters of the alphabet, the last group ending in up to two '='
IsStdBase64(text) ==
  LET NotBreak(c) == c \notin {10, 13}
      t == SelectSeq(text, NotBreak)
      n == Len(t)
  IN /\ n % 4 = 0
     /\ \E pads \in 0..2 :
          /\ pads <= n
          /\ \A i \in 1..n : IF i > n - pads THEN t[i] = Pad ELSE t[i] \in Base64Alphabet

\* C7: a Load that is answered with a value text that is not base64 returns no
\* error and the bytes of that text.
C7_LegacyFallback ==
  (/\ last.op = "Load"
   /\ last.status = StatusOK /\ last.err # "decode"
   /\ ~IsStdBase64(store[last.key]))
  => (last.err = "nil" /\ last.val = store[last.key])

\* a Load has returned the text "hi=" as it stands
C7_Witness ==
  /\ last.op = "Load" /\ last.err = "nil"
  /\ last.key \in DOMAIN store
  /\ store[last.key] = <<104, 105, 61>>
  /\ last.val = <<104, 105, 61>>

\* s starts with p
StartsWith(s, p) == Len(p) <= Len(s) /\ \A i \in 1..Len(p) : s[i] = p[i]

\* s without its first n elements
Drop(s, n) == [i \in 1..(Len(s) - n) |-> s[i + n]]

\* what is left of key after the prefix and then at most one leading slash
Remainder(key, prefix) ==
  LET rest == Drop(key, Len(prefix))
  IN IF Len(rest) > 0 /\ rest[1] = Slash THEN Drop(rest, 1) ELSE rest

\* a is b with some elements left out
RECURSIVE IsSubseq(_, _)
IsSubseq(a, b) ==
  IF Len(a) = 0 THEN TRUE
  ELSE IF Len(b) = 0 THEN FALSE
  ELSE IF a[1] = b[1] THEN IsSubseq(Tail(a), Tail(b))
  ELSE IsSubseq(a, Tail(b))

Key_a == <<97>>
Key_a_b == <<97, 47, 98>>
Key_a_b_c == <<97, 47, 98, 47, 99>>
Key_ab == <<97, 98>>
ExampleKeys == {Key_a, Key_a_b, Key_a_b_c, Key_ab}

\* C8: every key List returns starts with the prefix asked for and is a key
\* the remote service listed.
C8_PrefixInvariant ==
  listing.err = "nil" =>
    \A i \in DOMAIN listing.out :
      /\ StartsWith(listing.out[i], listing.prefix)
      /\ listing.out[i] \in Range(listing.keys)
      /\ listing.out[i] \in DOMAIN store

\* a List under "a/" has returned two keys and left others out
C8_Witness ==
  /\ listing.err = "nil"
  /\ listing.prefix = <<97, 47>>
  /\ Len(listing.out) = 2
  /\ Len(listing.keys) = 4

\* C9: without the recursive flag List returns a key iff it starts with the
\* prefix and nothing after the prefix and at most one leading slash is a
\* slash; a key equal to the prefix is returned; for "a", "a/b", "a/b/c", "ab"
\* and prefix "a" the result is "a", "a/b", "ab".
C9_NonRecursive ==
  (listing.err = "nil" /\ ~listing.recursive) =>
    /\ \A k \in Range(listing.keys) :
         k \in Range(listing.out) <=>
           /\ StartsWith(k, listing.prefix)
           /\ \A i \in DOMAIN Remainder(k, listing.prefix) :
                Remainder(k, listing.prefix)[i] # Slash
    /\ listing.prefix \in Range(listing.keys) => listing.prefix \in Range(listing.out)
    /\ (Range(listing.keys) = ExampleKeys /\ listing.prefix = Key_a)
         => Range(listing.out) = {Key_a, Key_a_b, Key_ab}

\* the example has been listed without the recursive flag
C9_Witness ==
  /\ listing.err = "nil" /\ ~listing.recursive
  /\ Range(listing.keys) = ExampleKeys /\ listing.prefix = Key_a
  /\ Range(listing.out) = {Key_a, Key_a_b, Key_ab}

\* C10: with the recursive flag List returns the keys that start with the
\* prefix, each once, in the order the service listed them; the result without
\* the flag is a subsequence of the result with it; for "a", "a/b", "a/b/c",
\* "ab" and prefix "a" the recursive result is all four keys.
C10_Recursive ==
  listing.err = "nil" =>
    LET Matches(k) == StartsWith(k, listing.prefix)
        all == SelectSeq(listing.keys, Matches)
    IN /\ listing.recursive => listing.out = all
       /\ ~listing.recursive => IsSubseq(listing.out, all)
       /\ IsSubseq(listing.out, List(listing.keys, listing.prefix, TRUE, "none").out)
       /\ (listing.recursive /\ Range(listing.keys) = ExampleKeys /\ listing.prefix = Key_a)
            => (Range(listing.out) = ExampleKeys /\ Len(listing.out) = 4)

\* the example has been listed with the flag, in the order "ab", "a/b/c", "a", "a/b"
C10_Witness ==
  /\ listing.err = "nil" /\ listing.recursive
  /\ listing.keys = <<Key_ab, Key_a_b_c, Key_a, Key_a_b>>
  /\ listing.prefix = Key_a
  /\ listing.out = <<Key_ab, Key_a_b_c, Key_a, Key_a_b>>

\* C11: Stat returns the KeyInfo {Key = key, Size = 0, IsTerminal = true} and no
\* error exactly when its Load succeeds, ErrNotExist when its Load returns
\* ErrNotExist, and the error of its Load on any other failure; for a key whose
\* last change was a successful Store an answered Stat succeeds; the step of a
\* Stat leaves the entries of the remote service as they were.
C11_StatContract ==
  [][(last = NoCall /\ last'.op = "Stat") =>
       /\ store' = store
       /\ last'.load = "nil" <=>
            /\ last'.err = "nil"
            /\ last'.info = [Key |-> last'.key, Modified |-> 0, Size |-> 0, IsTerminal |-> TRUE]
       /\ last'.load = "ErrNotExist" => last'.err = "ErrNotExist"
       /\ last'.load # "nil" => (last'.err = last'.load /\ last'.info = NoInfo)
       /\ last'.load = Load(store, last'.key, "none").err \/ last'.load \in {"execute", "status", "decode"}
       /\ (written[last'.key].kind = "stored" /\ AnsweredErr(last'.load)) => last'.err = "nil"
       /\ (written[last'.key].kind \in {"never", "deleted"} /\ AnsweredErr(last'.load))
            => last'.err = "ErrNotExist"]_vars

\* a Stat of "a/b", stored before, has returned its KeyInfo
C11_Witness ==
  /\ last.op = "Stat" /\ last.err = "nil" /\ last.key = <<97, 47, 98>>
  /\ written[last.key].kind = "stored"
  /\ last.info = [Key |-> <<97, 47, 98>>, Modified |-> 0, Size |-> 0, IsTerminal |-> TRUE]

\* C12: Exists returns true iff its Load succeeds: true for a key whose last
\* change was a successful Store, when answered; false for a key never written
\* or deleted, and false when the Load fails for any other reason.
C12_Exists ==
  last.op = "Exists" =>
    /\ last.ok <=> last.load = "nil"
    /\ (written[last.key].kind = "stored" /\ AnsweredErr(last.load)) => last.ok
    /\ written[last.key].kind \in {"never", "deleted"} => ~last.ok
    /\ last.key \notin DOMAIN store => ~last.ok
    /\ last.load \in {"execute", "status", "decode"} => ~last.ok

\* Exists has returned false for a key that is stored, the service refusing
C12_Witness ==
  /\ last.op = "Exists" /\ ~last.ok
  /\ last.load = "status"
  /\ written[last.key].kind = "stored"
  /\ last.key \in DOMAIN store

\* the service answered every write and delete request of caller p's call
WritesAnswered(p) ==
  \A i \in DOMAIN calls[p] :
    calls[p][i].op \in {"Store", "Delete"} => AnsweredErr(calls[p][i].err)

\* C13: a Lock or Unlock that returns a failure leaves the entries of the remote
\* service as they were before the call: when the call found no lock record,
\* nobody else changed the record under it and none of its write requests went
\* unanswered, there is no lock record afterwards.
C13_AllOrNothing ==
  \A p \in Procs :
    (/\ pc[p] = "returned" /\ op[p] \in {"Lock", "Unlock"}
     /\ res[p] # "nil"
     /\ seen[p] = "absent"
     /\ ~disturbed[p]
     /\ WritesAnswered(p))
    => lockKeyOf(lkey[p]) \notin DOMAIN store

\* a Lock that found no record has written its own, got status 500 on the
\* verifying read and returned a failure; its record is left behind
C13_Witness ==
  \E p \in Procs :
    /\ pc[p] = "returned" /\ op[p] = "Lock" /\ res[p] = "verify"
    /\ seen[p] = "absent" /\ ~disturbed[p]
    /\ calls[p] = <<[op |-> "Load", err |-> "ErrNotExist"], [op |-> "Store", err |-> "nil"],
                    [op |-> "Load", err |-> "status"]>>
    /\ lockKeyOf(lkey[p]) \in DOMAIN store
    /\ store[lockKeyOf(lkey[p])] = RecordOf(lval[p])
    /\ \A q \in Procs \ {p} : pc[q] = "idle"

\* C14: Validate returns an error iff the namespace or the API key is empty,
\* whatever the endpoint and whether or not Provision has run.
C14_Validate ==
  cfg.validate # "none" =>
    /\ cfg.validate # "nil" <=> (cfg.Namespace = <<>> \/ cfg.APIKey = <<>>)
    /\ cfg.validate = "namespace" <=> cfg.Namespace = <<>>
    /\ cfg.validate = "api_key" <=> (cfg.Namespace # <<>> /\ cfg.APIKey = <<>>)

\* a configuration without an endpoint, not provisioned, has been found valid
C14_Witness ==
  /\ cfg.validate = "nil" /\ ~cfg.provisioned
  /\ cfg.Endpoint = <<>>
  /\ cfg.Namespace = <<32>> /\ cfg.APIKey = <<107>>

\* p's Lock call makes its verifying read in this step
VerifiesNow(p) == pc[p] = "verify" /\ pc'[p] = "returned"

\* what a read of key's lock record returns when the service answers it
ReadBack(key) == Load(store, lockKeyOf(key), "none")

\* C15: a Lock that has written its timestamp returns success iff the verifying
\* read succeeds and returns that timestamp; on any other value it returns
\* "acquired by another process", and when the read fails it returns a failure.
C15_ReadAfterWrite ==
  [][\A p \in Procs :
       VerifiesNow(p) =>
         LET readErr == calls'[p][3].err
             back == ReadBack(lkey[p])
         IN /\ calls[p][2] = [op |-> "Store", err |-> "nil"]
            /\ Len(calls'[p]) = 3
            /\ res'[p] = "nil" <=> (readErr = "nil" /\ back.val = Sprintf(lval[p]))
            /\ (readErr = "nil" /\ back.val # Sprintf(lval[p])) => res'[p] = "raced"
            /\ readErr # "nil" => res'[p] = "verify"
            /\ readErr = "nil" => back.err = "nil"
            /\ store' = store]_vars

\* a Lock has read back the text "x" another party left after its write, and has
\* returned "acquired by another process"
C15_Witness ==
  \E p \in Procs :
    /\ pc[p] = "returned" /\ op[p] = "Lock" /\ res[p] = "raced"
    /\ calls[p] = <<[op |-> "Load", err |-> "ErrNotExist"], [op |-> "Store", err |-> "nil"],
                    [op |-> "Load", err |-> "nil"]>>
    /\ ReadBack(lkey[p]).val = <<120>>

\* p's Lock of key has returned success and p has not gone on
Holding(p, key) ==
  pc[p] = "returned" /\ op[p] = "Lock" /\ res[p] = "nil" /\ lkey[p] = key

\* C16: the acquire protocol lets two callers hold the lock of a key at once: a
\* Lock whose verifying read is answered with its own timestamp returns success
\* although another caller's Lock of the key has returned success and nothing
\* has released it; neither call had found a live record at its existence
\* check, so the two checks ran on an unlocked or abandoned record.
C16_RaceWindow ==
  [][\A q \in Procs : \A p \in Procs \ {q} :
       (/\ VerifiesNow(q)
        /\ Holding(p, lkey[q])
        /\ calls'[q][3].err = "nil"
        /\ ReadBack(lkey[q]).val = Sprintf(lval[q]))
       => (/\ Holding(p, lkey[q])'
           /\ Holding(q, lkey[q])'
           /\ seen[p] # "live" /\ seen[q] # "live")]_vars

\* both callers' Lock calls of "a" have returned success, with different
\* timestamps, each having found no record, every remote call answered
C16_Witness ==
  /\ \A p \in Procs : Holding(p, <<97>>) /\ seen[p] = "absent" /\ AllAnswered(p)
  /\ \E p \in Procs, q \in Procs :
       /\ lval[p] < lval[q]
       /\ store[lockKeyOf(<<97>>)] = RecordOf(lval[q])

\* q's Lock of key has written its timestamp, and when it has verified too, its
\* success is the last thing that happened to the record
WroteBefore(q, key) ==
  /\ op[q] = "Lock" /\ lkey[q] = key
  /\ \/ pc[q] = "verify"
     \/ /\ pc[q] = "returned" /\ Len(calls[q]) = 3 /\ AllAnswered(q)
        /\ res[q] = "nil" => held[key] = lval[q]

\* C17: when two Lock calls of a key have both written and a call's verifying
\* read comes after both writes, answered, with the record one of the two
\* timestamps: with different timestamps the call succeeds iff the record is its
\* own, that is iff its write was applied last, and never when the other call
\* has succeeded; with equal timestamps it succeeds.
C17_RaceDetected ==
  [][\A p \in Procs : \A q \in Procs \ {p} :
       LET lk == lockKeyOf(lkey[p])
       IN (/\ VerifiesNow(p)
           /\ WroteBefore(q, lkey[p])
           /\ calls'[p][3].err = "nil"
           /\ lk \in DOMAIN store
           /\ store[lk] \in {RecordOf(lval[p]), RecordOf(lval[q])})
          => /\ lval[p] # lval[q] =>
                  /\ res'[p] = "nil" <=> store[lk] = RecordOf(lval[p])
                  /\ res'[p] = "raced" <=> store[lk] = RecordOf(lval[q])
                  /\ ~(res'[p] = "nil" /\ pc[q] = "returned" /\ res[q] = "nil")
             /\ lval[p] = lval[q] => res'[p] = "nil"]_vars

\* two Lock calls with timestamps 8 and 9 have both written and then both
\* verified: the one that wrote last holds the lock, the other has failed
C17_Witness ==
  \E p \in Procs, q \in Procs :
    /\ \A c \in {p, q} :
         /\ pc[c] = "returned" /\ op[c] = "Lock" /\ lkey[c] = <<97>>
         /\ Len(calls[c]) = 3 /\ AllAnswered(c)
    /\ lval[p] = ClockStart /\ lval[q] = ClockStart + 1
    /\ res[p] = "raced" /\ res[q] = "nil"
    /\ held[<<97>>] = lval[q]
    /\ store[lockKeyOf(<<97>>)] = RecordOf(lval[q])

\* C18: a Lock whose existence check is answered with a record that is not, as
\* a whole, a decimal timestamp returns "lock already exists" at that check and
\* writes nothing.
C18_OpaqueRecord ==
  \A p \in Procs :
    (/\ op[p] = "Lock" /\ seen[p] = "opaque"
     /\ AnsweredErr(calls[p][1].err))
    => (/\ pc[p] = "returned"
        /\ res[p] = "exists"
        /\ Len(calls[p]) = 1)

\* a Lock that found a record that is no timestamp, with nobody else changing
\* the record under it, has returned success and put its own timestamp there
C18_Witness ==
  \E p \in Procs :
    /\ pc[p] = "returned" /\ op[p] = "Lock" /\ res[p] = "nil"
    /\ seen[p] = "opaque" /\ ~disturbed[p]
    /\ Len(calls[p]) = 3 /\ AllAnswered(p)
    /\ store[lockKeyOf(lkey[p])] = RecordOf(lval[p])

\* p's Lock call makes its write in this step
WritesNow(p) == pc[p] = "write" /\ pc'[p] # "write"

\* C19: an existence check answered 404 sends the Lock on to the write, which
\* is a Store of its timestamp; an existence check that fails in any other way
\* makes the Lock return a failure with nothing written.
C19_ExistenceCheck ==
  [][\A p \in Procs :
       /\ ChecksNow(p) =>
            LET firstErr == calls'[p][1].err
            IN /\ Len(calls'[p]) = 1 /\ calls'[p][1].op = "Load"
               /\ firstErr = "ErrNotExist" => (pc'[p] = "write" /\ res'[p] = "none")
               /\ firstErr \notin {"nil", "ErrNotExist"} =>
                    (pc'[p] = "returned" /\ res'[p] = "check" /\ store' = store)
       /\ WritesNow(p) =>
            /\ Len(calls'[p]) = 2 /\ calls'[p][2].op = "Store"
            /\ calls'[p][2].err = "nil" =>
                 /\ lockKeyOf(lkey[p]) \in DOMAIN store'
                 /\ store'[lockKeyOf(lkey[p])] = RecordOf(lval[p])]_vars

\* a Lock whose existence check got an undecodable body for the record that is
\* there has returned a failure after that one call
C19_Witness ==
  \E p \in Procs :
    /\ pc[p] = "returned" /\ op[p] = "Lock" /\ res[p] = "check"
    /\ calls[p] = <<[op |-> "Load", err |-> "decode"]>>
    /\ lockKeyOf(lkey[p]) \in DOMAIN store

\* p's Lock call starts in this step
BeginsNow(p) == pc[p] = "idle" /\ pc'[p] = "check"

\* C20: a Lock that fails at its existence check (a live record, a record that
\* does not parse, a read that fails) has made one remote call, a read, and
\* none of its steps changes an entry of the remote service.
C20_FailedCheckFrame ==
  [][\A p \in Procs :
       /\ BeginsNow(p) => (store' = store /\ calls'[p] = <<>>)
       /\ (ChecksNow(p) /\ pc'[p] = "returned") =>
            /\ store' = store
            /\ res'[p] \in {"exists", "check"}
            /\ Len(calls'[p]) = 1 /\ calls'[p][1].op = "Load"
       /\ (ChecksNow(p) /\ seen'[p] \in {"live", "opaque"} /\ pc'[p] = "returned")
            => store'[lockKeyOf(lkey[p])] = store[lockKeyOf(lkey[p])]]_vars

\* a Lock has failed on the record "x", which is still there
C20_Witness ==
  \E p \in Procs :
    /\ pc[p] = "returned" /\ op[p] = "Lock" /\ res[p] = "exists"
    /\ seen[p] = "opaque" /\ ~disturbed[p]
    /\ calls[p] = <<[op |-> "Load", err |-> "nil"]>>
    /\ store[lockKeyOf(lkey[p])] = EncodeToString(<<120>>)

\* the remote exchange itself failed: no response, an unexpected status or a
\* body that is no JSON
ExchangeFailed(e) == e \in {"execute", "status", "decode"}

\* p's Unlock call is made in this step
UnlocksNow(p) == pc[p] = "idle" /\ pc'[p] = "returned" /\ op'[p] = "Unlock"

\* C21: an Unlock that is answered and finds a lock record removes it and
\* returns no error, whatever the record holds and whoever wrote it, also while
\* another caller's Lock has succeeded on that record and that caller goes on
\* holding its success; the existence check of a Lock that then finds no record
\* goes on to the write, and such a Lock, answered and undisturbed, succeeds.
C21_UnlockAnyHolder ==
  [][\A p \in Procs :
       /\ (/\ UnlocksNow(p)
           /\ lockKeyOf(lkey'[p]) \in DOMAIN store
           /\ ~ExchangeFailed(calls'[p][1].err))
          => (/\ res'[p] = "nil"
              /\ lockKeyOf(lkey'[p]) \notin DOMAIN store'
              /\ \A q \in Procs \ {p} :
                   Holding(q, lkey'[p]) => (pc'[q] = "returned" /\ res'[q] = "nil"))
       /\ (/\ ChecksNow(p)
           /\ lockKeyOf(lkey[p]) \notin DOMAIN store
           /\ AnsweredErr(calls'[p][1].err))
          => pc'[p] = "write"
       /\ (/\ VerifiesNow(p)
           /\ seen[p] = "absent" /\ ~disturbed[p]
           /\ AllAnswered(p) /\ AnsweredErr(calls'[p][3].err))
          => res'[p] = "nil"]_vars

\* caller p holds a Lock that succeeded, the other caller q has since removed
\* p's record, less than five minutes old, by an Unlock, and a Lock made after
\* that found no record and succeeded: two callers hold the lock of one key
C21_Witness ==
  \E p \in Procs, q \in Procs :
    /\ p # q
    /\ Holding(p, lkey[p]) /\ Holding(q, lkey[p])
    /\ AllAnswered(p) /\ AllAnswered(q)
    /\ lval[p] < lval[q] /\ lval[q] - lval[p] < StaleMinutes
    /\ seen[q] = "absent" /\ ~disturbed[q]
    /\ store[lockKeyOf(lkey[q])] = RecordOf(lval[q])

\* the timestamp the lock record of key holds, None if it holds no timestamp
StampOf(st, key) ==
  IF lockKeyOf(key) \in DOMAIN st
     /\ \E ts \in TimeStamps : st[lockKeyOf(key)] = RecordOf(ts)
  THEN CHOOSE ts \in TimeStamps : st[lockKeyOf(key)] = RecordOf(ts)
  ELSE None

\* C22: an existence check that reads a record holding a timestamp fails with
\* the contention error, leaving the record, exactly when the clock's reading
\* at the check less that timestamp is under five minutes, so also for every
\* timestamp ahead of the clock; at five minutes and more it goes on to the
\* write, and an acknowledged write puts the call's own timestamp in its place.
C22_AgeBoundary ==
  [][\A p \in Procs :
       /\ (/\ ChecksNow(p)
           /\ StampOf(store, lkey[p]) # None
           /\ calls'[p][1].err = "nil")
          => LET age == now - StampOf(store, lkey[p])
             IN /\ age < StaleMinutes
                     <=> (pc'[p] = "returned" /\ res'[p] = "exists" /\ store' = store)
                /\ age >= StaleMinutes <=> pc'[p] = "write"
       /\ (/\ WritesNow(p)
           /\ calls'[p][2].err = "nil")
          => store'[lockKeyOf(lkey[p])] = RecordOf(lval[p])]_vars

\* a record exactly five minutes old has passed the existence check, and the
\* call stands before its write
C22_Witness ==
  \E p \in Procs :
    /\ pc[p] = "write" /\ seen[p] = "stale"
    /\ lval[p] = now
    /\ StampOf(store, lkey[p]) = now - StaleMinutes

\* the name of the one entry Lock and Unlock of key are to touch
LockRecordName(key) == key \o LockSuffix

\* the key of the call of p that takes a step
KeyNow(p) == IF pc[p] = "idle" THEN lkey'[p] ELSE lkey[p]

\* C23: a step of a Lock or Unlock call of key k leaves every entry of the
\* service other than k.lock as it was: the value at k, and the lock record of
\* every other key, neither created, changed nor removed; and a Lock of k that
\* found no record of k and was answered, with nobody else at k's record,
\* succeeds whatever calls on another key went on meanwhile.
C23_LockFrame ==
  [][\A p \in Procs :
       /\ pc'[p] # pc[p]
          => \A j \in DOMAIN store \cup DOMAIN store' :
               j # LockRecordName(KeyNow(p))
               => (j \in DOMAIN store /\ j \in DOMAIN store' /\ store'[j] = store[j])
       /\ (/\ VerifiesNow(p)
           /\ seen[p] = "absent" /\ ~disturbed[p]
           /\ AllAnswered(p) /\ AnsweredErr(calls'[p][3].err))
          => (res'[p] = "nil" /\ store[LockRecordName(lkey[p])] = RecordOf(lval[p]))]_vars

\* one caller holds the lock of "a" and the other the lock of "a/b", each
\* record in place with its caller's timestamp, and the data at both keys is
\* what it was
C23_Witness ==
  \E p \in Procs, q \in Procs :
    /\ Holding(p, <<97>>) /\ Holding(q, <<97, 47, 98>>)
    /\ store[LockRecordName(<<97>>)] = RecordOf(lval[p])
    /\ store[LockRecordName(<<97, 47, 98>>)] = RecordOf(lval[q])
    /\ \A k \in FrameTargets : store[k] = EncodeToString(<<255>>)

\* C24: with nobody else changing the record meanwhile, after a Lock has
\* returned success the lock record exists and holds that call's timestamp;
\* after an Unlock has returned no error the record is absent; and a Lock that
\* finds the record absent and is answered returns success, no matter how
\* short a time after the record was removed.
C24_Lifecycle ==
  \A p \in Procs :
    /\ (Holding(p, lkey[p]) /\ ~disturbed[p])
       => (/\ lockKeyOf(lkey[p]) \in DOMAIN store
           /\ store[lockKeyOf(lkey[p])] = RecordOf(lval[p]))
    /\ (pc[p] = "returned" /\ op[p] = "Unlock" /\ res[p] = "nil" /\ ~disturbed[p])
       => lockKeyOf(lkey[p]) \notin DOMAIN store
    /\ (/\ pc[p] = "returned" /\ op[p] = "Lock"
        /\ seen[p] = "absent" /\ ~disturbed[p]
        /\ AllAnswered(p))
       => (res[p] = "nil" /\ Len(calls[p]) = 3)

\* an Unlock has removed a live record and returned no error, and a Lock
\* begun after it, at the same reading of the clock, has succeeded and its
\* record is in place
C24_Witness ==
  \E p \in Procs, q \in Procs :
    /\ pc[q] = "returned" /\ op[q] = "Unlock" /\ res[q] = "nil" /\ seen[q] = "live"
    /\ Holding(p, lkey[q]) /\ seen[p] = "absent" /\ ~disturbed[p]
    /\ lval[p] = ClockStart /\ now = ClockStart
    /\ store[lockKeyOf(lkey[p])] = RecordOf(lval[p])

\* the remote calls of Lock, in the order it makes them
LockOrder == <<"Load", "Store", "Load">>

\* p's Lock call is between its start and its return
InLock(p) == pc[p] \in {"check", "write", "verify"}

\* the i-th remote call of a Lock call failed as Lock sees it: the first read
\* with anything but a missing record, the write and the second read with
\* any error
StepFailed(i, c) ==
  IF i = 1 THEN c.err \notin {"nil", "ErrNotExist"} ELSE c.err # "nil"

\* C25: a Lock call makes at most three remote calls, a read, a write and a
\* read in that order; each step of it makes exactly one and moves on, none is
\* made twice; a step whose call failed returns the call with an error at
\* once, and so does a contention or race verdict; and, every remote call
\* returning, a Lock call that has started returns.
C25_BoundedCalls ==
  /\ [][\A p \in Procs :
          /\ op'[p] = "Lock"
             => (/\ Len(calls'[p]) <= Len(LockOrder)
                 /\ \A i \in DOMAIN calls'[p] : calls'[p][i].op = LockOrder[i]
                 /\ \A i \in DOMAIN calls'[p] :
                      StepFailed(i, calls'[p][i])
                      => (/\ i = Len(calls'[p])
                          /\ pc'[p] = "returned"
                          /\ res'[p] \notin {"none", "nil"}))
          /\ (InLock(p) /\ <<pc[p], calls[p]>> # <<pc'[p], calls'[p]>>)
             => (/\ Len(calls'[p]) = Len(calls[p]) + 1
                 /\ SubSeq(calls'[p], 1, Len(calls[p])) = calls[p]
                 /\ \/ pc[p] = "check" /\ pc'[p] \in {"write", "returned"}
                    \/ pc[p] = "write" /\ pc'[p] \in {"verify", "returned"}
                    \/ pc[p] = "verify" /\ pc'[p] = "returned"
                 /\ pc'[p] = "returned" => res'[p] # "none")]_vars
  /\ \A p \in Procs : InLock(p) ~> (pc[p] = "returned" /\ res[p] # "none")

\* a Lock call has returned success after exactly its three remote calls, and
\* another has returned failure after its first one
C25_Witness ==
  \E p \in Procs, q \in Procs :
    /\ Holding(p, lkey[p]) /\ Len(calls[p]) = 3
    /\ pc[q] = "returned" /\ op[q] = "Lock" /\ res[q] = "check" /\ Len(calls[q]) = 1

\* Provision is applied to the configuration in this step
ProvisionsNow == ~cfg.provisioned /\ cfg'.provisioned

\* str ends with a slash
EndsWithSlash(str) == Len(str) > 0 /\ str[Len(str)] = Slash

\* C26: whatever endpoint was configured, the endpoint Provision leaves does
\* not end with a slash, and when none was configured it is the default.
C26_EndpointNormalised ==
  [][ProvisionsNow
       => (/\ ~EndsWithSlash(cfg'.Endpoint)
           /\ cfg.Endpoint = <<>> => cfg'.Endpoint = DefaultEndpoint)]_vars

\* Provision has left the endpoint "h/", which ends with a slash
C26_Witness ==
  /\ cfg.provisioned
  /\ cfg.Endpoint = <<104, Slash>>

\* p's call of the superseded Lock is made in this step
LocksNaivelyNow(p) == pc[p] = "idle" /\ pc'[p] = "returned" /\ op'[p] = "Lock"

\* C27: a call of the superseded Lock makes one remote call, the Store of its
\* timestamp, and returns success exactly when that Store returned no error,
\* so it fails only when the exchange with the service failed, whatever
\* record was there, one written a moment before by another caller included:
\* the record is then this call's timestamp, and a caller whose Lock
\* succeeded before goes on holding its success.
C27_NaiveLock ==
  [][\A p \in Procs :
       LocksNaivelyNow(p)
       => (/\ Len(calls'[p]) = 1
           /\ calls'[p][1].op = "Store"
           /\ res'[p] = "nil" <=> calls'[p][1].err = "nil"
           /\ res'[p] # "nil" => ExchangeFailed(calls'[p][1].err)
           /\ calls'[p][1].err = "nil"
              => (/\ lockKeyOf(lkey'[p]) \in DOMAIN store'
                  /\ store'[lockKeyOf(lkey'[p])] = RecordOf(now))
           /\ \A q \in Procs \ {p} :
                Holding(q, lkey'[p]) => (pc'[q] = "returned" /\ res'[q] = "nil"))]_vars

\* caller p's Lock has succeeded, and a minute later caller q's Lock has met
\* p's live record, has succeeded too and has put its own timestamp in its place
C27_Witness ==
  \E p \in Procs, q \in Procs :
    /\ Holding(p, lkey[q]) /\ Holding(q, lkey[q])
    /\ Len(calls[p]) = 1 /\ Len(calls[q]) = 1
    /\ seen[q] = "live" /\ ~disturbed[q]
    /\ lval[p] = ClockStart /\ lval[q] = ClockStart + 1
    /\ store[lockKeyOf(lkey[q])] = RecordOf(lval[q])

====
